---- MODULE Spec2Model ----
(***************************************************************************)
(* A model of src/app.py: the degree-audit pipeline                        *)
(*   load_data -> get_minor_courses -> map_gened_requirements ->           *)
(*   process_curriculum_json -> apply_section_borders                      *)
(* as run by main() on every Streamlit interaction.                        *)
(*                                                                         *)
(* Python values are encoded as follows.                                   *)
(*   - a str is a TLA+ string; a list is a sequence;                       *)
(*   - a dict whose keys vary is a sequence of [key, val] pairs in         *)
(*     insertion order (Python dicts iterate in insertion order);          *)
(*   - an optional dict key is <<>> (absent) or <<v>> (present);           *)
(*   - a JSON value of unknown shape (a Credit field, an Area(s) field, a  *)
(*     major-list element) is a record tagged by its Python type in t.     *)
(* A call that raises is a result whose err field names the exception.     *)
(***************************************************************************)
EXTENDS Integers, Sequences, FiniteSets, TLC

VARIABLES
    remote,          \* the five JSON documents behind base_url
    cache,           \* st.cache_data's entry for load_data()
    pc,              \* main()'s position in the current script run
    fetchIdx,        \* how many of files.items() load_data has requested
    loaded_data,     \* load_data's local dict
    data_bundle,     \* main's data_bundle: <<>> is None
    errors,          \* st.error calls shown in this run
    selected_major,  \* st.sidebar.selectbox result: <<>> is None
    selected_minor,
    courses,         \* get_minor_courses' result
    fulfillment,     \* course_gened_fulfillment_list
    final_df,        \* process_curriculum_json's result (its rows)
    styles,          \* apply_section_borders' result
    message,         \* what the run ended with
    raised,          \* the uncaught exception that ended the run
    invoked,         \* the pipeline functions called in this run
    fetchFailed      \* the index of the file whose fetch failed in this run

vars == <<remote, cache, pc, fetchIdx, loaded_data, data_bundle, errors,
          selected_major, selected_minor, courses, fulfillment, final_df,
          styles, message, raised, invoked, fetchFailed>>

----------------------------------------------------------------------------
\* Python dicts and optional keys

Absent == <<>>

Some(v) == <<v>>

Has(o) == o # <<>>

Val(o) == o[1]

Range(s) == {s[i] : i \in 1..Len(s)}

\* the element of a one-element set: The({e(x) : x \in {v}}) is e(v) with v computed once
The(S) == CHOOSE x \in S : TRUE

\* k in d
HasKey(d, k) == \E i \in 1..Len(d) : d[i].key = k

\* d[k], for a key d has
Get(d, k) == d[CHOOSE i \in 1..Len(d) : d[i].key = k].val

\* list(d.keys())
Keys(d) == [i \in 1..Len(d) |-> d[i].key]

\* list(d.values())
Values(d) == [i \in 1..Len(d) |-> d[i].val]

RECURSIVE Concat(_)
\* the concatenation of a sequence of sequences
Concat(ss) ==
    The({IF v = <<>> THEN <<>> ELSE Head(v) \o Concat(Tail(v)) : v \in {ss}})

\* JSON values of unknown shape
DictV(hasMin, hasMax, mn, mx) ==
    [t |-> "dict", hasMin |-> hasMin, hasMax |-> hasMax, Min |-> mn, Max |-> mx, n |-> 0, s |-> ""]

NumV(n) == [t |-> "num", hasMin |-> FALSE, hasMax |-> FALSE, Min |-> 0, Max |-> 0, n |-> n, s |-> ""]

StrV(s) == [t |-> "str", hasMin |-> FALSE, hasMax |-> FALSE, Min |-> 0, Max |-> 0, n |-> 0, s |-> s]

NullV == [t |-> "null", hasMin |-> FALSE, hasMax |-> FALSE, Min |-> 0, Max |-> 0, n |-> 0, s |-> ""]

\* Python truthiness of such a value
Truthy(v) ==
    CASE v.t = "dict" -> v.hasMin \/ v.hasMax
      [] v.t = "num" -> v.n # 0
      [] v.t = "str" -> v.s # ""
      [] OTHER -> FALSE

\* isinstance(value, dict) and 'Min' in value and 'Max' in value
IsMinMaxPair(v) == v.t = "dict" /\ v.hasMin /\ v.hasMax

----------------------------------------------------------------------------
\* A course entry of a minor (a JSON object).  Course, Title, Credit, credit
\* and group are optional keys; others holds the values of the entry's other
\* keys whose name contains "credit", in document order; lists holds the
\* entry's list-valued keys (such as "courses"), in document order.
Entry(course, title, Credit, credit, others, group, lists) ==
    [Course |-> course, Title |-> title, Credit |-> Credit, credit |-> credit,
     others |-> others, group |-> group, lists |-> lists]

\* {"Course": c}
Plain(c) == Entry(Some(c), Absent, Absent, Absent, <<>>, Absent, <<>>)

\* {"Course": c, "Title": t}
Titled(c, t) == Entry(Some(c), Some(t), Absent, Absent, <<>>, Absent, <<>>)

\* {"Course": c, "Credit": v}
WithCredit(c, v) == Entry(Some(c), Absent, Some(v), Absent, <<>>, Absent, <<>>)

\* {"group": g, "courses": items}
Group(g, items) ==
    Entry(Absent, Absent, Absent, Absent, <<>>, Some(g), <<[key |-> "courses", val |-> items]>>)

\* {key: items}, a nested option list without a group name
Options(key, items) ==
    Entry(Absent, Absent, Absent, Absent, <<>>, Absent, <<[key |-> key, val |-> items]>>)

----------------------------------------------------------------------------
\* get_minor_courses

\* the inner loop over one list value: the items that name a course
NestedCourses(items) ==
    LET named == SelectSeq(items, LAMBDA item : Has(item.Course))
    IN  [i \in 1..Len(named) |-> Val(named[i].Course)]

\* EntryCourses without the elif branch for nested lists
EntryCoursesDirectOnly(entry) ==
    IF Has(entry.Course) THEN <<Val(entry.Course)>> ELSE <<>>

\* the body of "for entry in section_list"
EntryCourses(entry) ==
    IF Has(entry.Course)
    THEN <<Val(entry.Course)>>
    ELSE Concat([i \in 1..Len(entry.lists) |-> NestedCourses(entry.lists[i].val)])

SectionCourses(section_list) ==
    Concat([i \in 1..Len(section_list) |-> EntryCourses(section_list[i])])

get_minor_courses(sel_minor, minor_data) ==
    IF Has(sel_minor) /\ HasKey(minor_data, Val(sel_minor))
    THEN LET minor_info == Get(minor_data, Val(sel_minor))
         IN  Concat([i \in 1..Len(minor_info) |-> SectionCourses(minor_info[i].val)])
    ELSE <<>>

----------------------------------------------------------------------------
\* map_gened_requirements

\* the value of a gen-ed record's "Area(s)" key
AreaList(v) == [t |-> "list", v |-> v, s |-> ""]

AreaStr(s) == [t |-> "str", v |-> <<>>, s |-> s]

AreaNull == [t |-> "null", v |-> <<>>, s |-> ""]

\* a gen-ed record {"Course": c, "Area(s)": areas}; areas is optional
GenedRec(c, areas) == [Course |-> c, Areas |-> areas]

\* an element of a major's Core or Electives list, or of a liberal-arts list:
\* the JSON object {"Course": c}, or the bare JSON string c
CourseObj(c) == [t |-> "dict", Course |-> c]

CourseStr(c) == [t |-> "str", Course |-> c]

\* the records gened_fulfillment_map is built from, in the order it is filled
GenedRecords(gened_data) ==
    Get(Get(gened_data, "gened"), "Required Core") \o Get(Get(gened_data, "gened"), "Flexible Core")

\* gened_fulfillment_map.get(course, []): the last record of the course wins
GenedMapGet(records, course) ==
    LET hits == {i \in 1..Len(records) : records[i].Course = course}
        last == CHOOSE i \in hits : \A j \in hits : j <= i
    IN  IF hits = {} \/ ~Has(records[last].Areas)
        THEN AreaList(<<>>)
        ELSE Val(records[last].Areas)

\* the isinstance(fulfilled_geneds, list) normalisation
NormalizeAreas(a) ==
    CASE a.t = "list" -> a.v
      [] a.t = "str" /\ a.s # "" -> <<a.s>>
      [] OTHER -> <<>>

IsDigit(ch) == ch \in {"0", "1", "2", "3", "4", "5", "6", "7", "8", "9"}

\* where "$" matches in a string of length n: at its end, and before a final newline
AtDollar(str, p) ==
    \/ p = Len(str) + 1
    \/ p = Len(str) /\ SubSeq(str, p, p) = "\n"

\* the pattern without its "$": digits and "ID" anywhere in the identifier
MatchesIDPatternUnanchored(course) ==
    \E i \in 1..Len(course) : \E j \in i..Len(course) :
        /\ \A k \in i..j : IsDigit(SubSeq(course, k, k))
        /\ j + 2 <= Len(course)
        /\ SubSeq(course, j + 1, j + 2) = "ID"

\* re.search(r'\d+ID$', course): some run of digits from i to j, then "ID", then "$"
MatchesIDPattern(course) ==
    \E i \in 1..Len(course) : \E j \in i..Len(course) :
        /\ \A k \in i..j : IsDigit(SubSeq(course, k, k))
        /\ j + 2 <= Len(course)
        /\ SubSeq(course, j + 1, j + 2) = "ID"
        /\ AtDollar(course, j + 3)

\* set([c['Course'] for c in lst])
CourseSet(lst) == {lst[i].Course : i \in 1..Len(lst)}

\* c['Course'] on a str raises TypeError
HasStrElement(lst) == \E i \in 1..Len(lst) : lst[i].t = "str"

\* the exception raised before the loop over courses, or "none"
MapSetupError(sel_major, bundle) ==
    IF ~HasKey(bundle.gened_data, "gened") THEN "KeyError"
    ELSE IF ~HasKey(Get(bundle.gened_data, "gened"), "Required Core") THEN "KeyError"
    ELSE IF ~HasKey(Get(bundle.gened_data, "gened"), "Flexible Core") THEN "KeyError"
    ELSE IF ~Has(sel_major) THEN "KeyError"
    ELSE IF ~HasKey(bundle.major_data, Val(sel_major)) THEN "KeyError"
    ELSE IF HasStrElement(Get(bundle.major_data, Val(sel_major)).Core) THEN "TypeError"
    ELSE IF HasStrElement(Get(bundle.major_data, Val(sel_major)).Electives) THEN "TypeError"
    ELSE IF ~HasKey(bundle.lib_data, "Adv Lib Art") THEN "KeyError"
    ELSE IF HasStrElement(Get(bundle.lib_data, "Adv Lib Art")) THEN "TypeError"
    ELSE IF ~HasKey(bundle.lib_data, "Lib Art") THEN "KeyError"
    ELSE IF HasStrElement(Get(bundle.lib_data, "Lib Art")) THEN "TypeError"
    ELSE "none"

\* the interdisciplinary check
IsIDCourse(course, ID_data) == course \in ID_data \/ MatchesIDPattern(course)

\* the body of "for course in courses": current_fulfilled
FulfilledAreas(course, sel_major, bundle) ==
    LET major == Get(bundle.major_data, Val(sel_major))
    IN  NormalizeAreas(GenedMapGet(GenedRecords(bundle.gened_data), course))
        \o (IF course \in CourseSet(major.Core) THEN <<"Major_Core">> ELSE <<>>)
        \o (IF course \in CourseSet(major.Electives) THEN <<"Major_Elec">> ELSE <<>>)
        \o (IF course \in CourseSet(Get(bundle.lib_data, "Lib Art")) THEN <<"Lib Art">> ELSE <<>>)
        \o (IF course \in CourseSet(Get(bundle.lib_data, "Adv Lib Art"))
            THEN <<"Lib Art", "Adv Lib Art">> ELSE <<>>)
        \o (IF IsIDCourse(course, bundle.ID_data) THEN <<"ID">> ELSE <<>>)

\* the call's outcome: err names the exception raised, val is the list returned
map_gened_requirements(crs, sel_major, bundle) ==
    LET e == MapSetupError(sel_major, bundle)
    IN  IF e # "none"
        THEN [err |-> e, val |-> <<>>]
        ELSE [err |-> "none",
              val |-> [i \in 1..Len(crs) |->
                         [Course |-> crs[i], Areas |-> FulfilledAreas(crs[i], sel_major, bundle)]]]

----------------------------------------------------------------------------
\* process_curriculum_json

\* main's gened_areas (line 265)
gened_areas ==
    <<"EC", "MQR", "LPS", "WCGI", "USED", "IS", "CE", "SW", "Lib Art", "Adv Lib Art",
      "ID", "Major_Core", "Major_Elec">>

\* format_credit without the min_credit == max_credit case
format_credit_always_range(min_credit, max_credit) ==
    ToString(min_credit) \o "-" \o ToString(max_credit)

format_credit(min_credit, max_credit) ==
    IF min_credit = max_credit
    THEN ToString(max_credit)
    ELSE ToString(min_credit) \o "-" \o ToString(max_credit)

\* data_item.get(key): None when the key is absent
GetOrNone(o) == IF Has(o) THEN Val(o) ELSE NullV

\* what get_credit_info returns
get_credit_info(data_item) ==
    LET first == GetOrNone(data_item.Credit)
        info == IF Truthy(first) THEN first ELSE GetOrNone(data_item.credit)
        pairs == SelectSeq(data_item.others, IsMinMaxPair)
    IN  IF Truthy(info) THEN info
        ELSE IF pairs # <<>> THEN Head(pairs)
        ELSE DictV(TRUE, TRUE, 3, 3)

\* the exception credit_info['Min'], credit_info['Max'] raises, or "none"
CreditError(credit_info) ==
    IF credit_info.t = "dict"
    THEN IF credit_info.hasMin /\ credit_info.hasMax THEN "none" ELSE "KeyError"
    ELSE "TypeError"

\* fulfillment_map.get(course, []): the dict comprehension keeps the last item of a course
FulfillmentGet(fulfillment_list, course) ==
    LET hits == {i \in 1..Len(fulfillment_list) : fulfillment_list[i].Course = course}
        last == CHOOSE i \in hits : \A j \in hits : j <= i
    IN  IF hits = {} THEN <<>> ELSE fulfillment_list[last].Areas

\* one processed_list.append(...), or the exception raised on the way to it
CourseRow(sub_section, course_info, default_title, fulfillment_list) ==
    IF ~Has(course_info.Course) THEN [err |-> "KeyError", rows |-> <<>>]
    ELSE The({IF CreditError(credit_info) # "none"
              THEN [err |-> CreditError(credit_info), rows |-> <<>>]
              ELSE [err |-> "none",
                    rows |-> <<[Sub_Section |-> sub_section,
                                Course |-> Val(course_info.Course),
                                Name |-> IF Has(course_info.Title) THEN Val(course_info.Title)
                                         ELSE default_title,
                                Credit |-> format_credit(credit_info.Min, credit_info.Max),
                                Areas |-> FulfillmentGet(fulfillment_list, Val(course_info.Course))]>>]
              : credit_info \in {get_credit_info(course_info)}})

RECURSIVE RowsOfList(_, _, _, _)
\* a loop of CourseRow over items, stopped by the first exception
RowsOfList(sub_section, items, default_title, fulfillment_list) ==
    IF items = <<>> THEN [err |-> "none", rows |-> <<>>]
    ELSE The({IF r.err # "none" THEN r
              ELSE The({[err |-> rest.err, rows |-> r.rows \o rest.rows]
                        : rest \in {RowsOfList(sub_section, Tail(items), default_title,
                                                fulfillment_list)}})
              : r \in {CourseRow(sub_section, Head(items), default_title, fulfillment_list)}})

\* the body of "for item in core_section" / "for item in elective_section"
ItemRows(item, direct_label, direct_title, group_prefix, fulfillment_list) ==
    IF Has(item.Course)
    THEN CourseRow(direct_label, item, direct_title, fulfillment_list)
    ELSE IF Has(item.group)
    THEN IF HasKey(item.lists, "courses")
         THEN RowsOfList(group_prefix \o Val(item.group), Get(item.lists, "courses"), "",
                         fulfillment_list)
         ELSE [err |-> "KeyError", rows |-> <<>>]
    ELSE [err |-> "none", rows |-> <<>>]

RECURSIVE SectionRows(_, _, _, _, _)
\* one section's loop, stopped by the first exception
SectionRows(section, direct_label, direct_title, group_prefix, fulfillment_list) ==
    IF section = <<>> THEN [err |-> "none", rows |-> <<>>]
    ELSE The({IF r.err # "none" THEN r
              ELSE The({[err |-> rest.err, rows |-> r.rows \o rest.rows]
                        : rest \in {SectionRows(Tail(section), direct_label, direct_title,
                                                 group_prefix, fulfillment_list)}})
              : r \in {ItemRows(Head(section), direct_label, direct_title, group_prefix,
                                 fulfillment_list)}})

\* data.get(name, [])
SectionOf(curriculum_data, name) ==
    IF HasKey(curriculum_data, name) THEN Get(curriculum_data, name) ELSE <<>>

\* ProcessedList with the Electives loop run before the Core loop
ProcessedListElectivesFirst(curriculum_data, fulfillment_list) ==
    The({IF elec.err # "none" THEN elec
         ELSE The({[err |-> core.err, rows |-> elec.rows \o core.rows]
                   : core \in {SectionRows(SectionOf(curriculum_data, "Core"),
                                            "A. Mandatory Core Courses", "Mandatory",
                                            "B. Conditional Core: ", fulfillment_list)}})
         : elec \in {SectionRows(SectionOf(curriculum_data, "Electives"),
                                  "A. General Electives List", "", "B. Conditional Elective: ",
                                  fulfillment_list)}})

\* processed_list, or the exception raised while building it
ProcessedList(curriculum_data, fulfillment_list) ==
    The({IF core.err # "none" THEN core
         ELSE The({[err |-> elec.err, rows |-> core.rows \o elec.rows]
                   : elec \in {SectionRows(SectionOf(curriculum_data, "Electives"),
                                            "A. General Electives List", "",
                                            "B. Conditional Elective: ", fulfillment_list)}})
         : core \in {SectionRows(SectionOf(curriculum_data, "Core"), "A. Mandatory Core Courses",
                                  "Mandatory", "B. Conditional Core: ", fulfillment_list)}})

\* DfRow with 'X' and '' swapped
DfRowSwapped(course_info, areas) ==
    [Sub_Section |-> course_info.Sub_Section,
     Course |-> course_info.Course,
     Name |-> course_info.Name,
     Credit |-> course_info.Credit,
     flags |-> [a \in Range(areas) |-> IF a \in Range(course_info.Areas) THEN "" ELSE "X"]]

\* course_dict: the index columns, Credit, and one 'X' or '' per column of areas
DfRow(course_info, areas) ==
    [Sub_Section |-> course_info.Sub_Section,
     Course |-> course_info.Course,
     Name |-> course_info.Name,
     Credit |-> course_info.Credit,
     flags |-> [a \in Range(areas) |-> IF a \in Range(course_info.Areas) THEN "X" ELSE ""]]

\* the call's outcome: err names the exception raised, rows are the DataFrame's rows
process_curriculum_json(curriculum_name, curriculum_data, areas, fulfillment_list) ==
    The({[err |-> p.err,
          rows |-> IF p.err # "none" THEN <<>>
                   ELSE [i \in 1..Len(p.rows) |-> DfRow(p.rows[i], areas)]]
         : p \in {ProcessedList(curriculum_data, fulfillment_list)}})

\* apply_section_borders without the comparison of labels: every row but the last
apply_section_borders_every_row(rows) ==
    [i \in 1..(IF rows = <<>> THEN 0 ELSE Len(rows) - 1) |-> i]

\* apply_section_borders: the rows (tr:nth-child numbers) given a bottom border
apply_section_borders(rows) ==
    LET marked == {i \in 1..Len(rows) :
                      i + 1 <= Len(rows) /\ rows[i + 1].Sub_Section # rows[i].Sub_Section}
    IN  SelectSeq([i \in 1..Len(rows) |-> i], LAMBDA i : i \in marked)

----------------------------------------------------------------------------
\* load_data and main: one Streamlit script run after another

\* the keys of load_data's files, in the order files.items() yields them
files == <<"minor_data", "gened_data", "major_data", "lib_data", "ID_data">>

\* loaded_data once every file is in it, as main reads it
BundleOf(loaded) ==
    [minor_data |-> Get(loaded, "minor_data"),
     gened_data |-> Get(loaded, "gened_data"),
     major_data |-> Get(loaded, "major_data"),
     lib_data |-> Get(loaded, "lib_data"),
     ID_data |-> Get(loaded, "ID_data")]

\* what st.sidebar.selectbox may return for a list of options: any of them, None for no options
SelectboxChoices(options) ==
    IF options = <<>> THEN {Absent} ELSE {Some(options[i]) : i \in 1..Len(options)}

\* what a script run starts from
RunLocals ==
    /\ fetchIdx = 0
    /\ loaded_data = <<>>
    /\ data_bundle = Absent
    /\ errors = 0
    /\ selected_major = Absent
    /\ selected_minor = Absent
    /\ courses = <<>>
    /\ fulfillment = <<>>
    /\ final_df = Absent
    /\ styles = <<>>
    /\ message = ""
    /\ raised = "none"
    /\ invoked = {}
    /\ fetchFailed = 0

\* main calls load_data: st.cache_data returns a cached result, replaying the
\* st.error it recorded, or runs the function
CallLoadData ==
    /\ pc = "start"
    /\ IF cache.state = "empty"
       THEN /\ pc' = "fetching"
            /\ UNCHANGED <<data_bundle, errors>>
       ELSE /\ pc' = "loaded"
            /\ data_bundle' = cache.value
            /\ errors' = cache.errors
    /\ UNCHANGED <<remote, cache, fetchIdx, loaded_data, selected_major, selected_minor,
                   courses, fulfillment, final_df, styles, message, raised, invoked,
                   fetchFailed>>

\* one iteration of load_data's loop whose try block succeeds; after the last, return loaded_data
FetchOk ==
    /\ pc = "fetching"
    /\ fetchIdx < Len(files)
    /\ fetchIdx' = fetchIdx + 1
    /\ loaded_data' = Append(loaded_data, [key |-> files[fetchIdx + 1],
                                           val |-> remote[files[fetchIdx + 1]]])
    /\ IF fetchIdx' = Len(files)
       THEN /\ data_bundle' = Some(BundleOf(loaded_data'))
            /\ cache' = [state |-> "set", value |-> data_bundle', errors |-> errors]
            /\ pc' = "loaded"
       ELSE UNCHANGED <<data_bundle, cache, pc>>
    /\ UNCHANGED <<remote, errors, selected_major, selected_minor, courses, fulfillment,
                   final_df, styles, message, raised, invoked, fetchFailed>>

\* FetchFail with the "return None" lost: the error is shown and the loop goes on
FetchFailContinues ==
    /\ pc = "fetching"
    /\ fetchIdx < Len(files)
    /\ fetchIdx' = fetchIdx + 1
    /\ fetchFailed' = fetchIdx + 1
    /\ errors' = errors + 1
    /\ IF fetchIdx' = Len(files)
       THEN /\ data_bundle' = Some(loaded_data)
            /\ cache' = [state |-> "set", value |-> data_bundle', errors |-> errors']
            /\ pc' = "loaded"
       ELSE UNCHANGED <<data_bundle, cache, pc>>
    /\ UNCHANGED <<remote, loaded_data, selected_major, selected_minor, courses, fulfillment,
                   final_df, styles, message, raised, invoked>>

\* one iteration whose request, status check or JSON decoding raises: st.error, return None
FetchFail ==
    /\ pc = "fetching"
    /\ fetchIdx < Len(files)
    /\ fetchIdx' = fetchIdx + 1
    /\ fetchFailed' = fetchIdx + 1
    /\ errors' = errors + 1
    /\ data_bundle' = Absent
    /\ cache' = [state |-> "set", value |-> Absent, errors |-> errors']
    /\ pc' = "loaded"
    /\ UNCHANGED <<remote, loaded_data, selected_major, selected_minor, courses, fulfillment,
                   final_df, styles, message, raised, invoked>>

\* if not data_bundle: st.stop()
Stop ==
    /\ pc = "loaded"
    /\ ~Has(data_bundle)
    /\ pc' = "end"
    /\ message' = "stopped"
    /\ UNCHANGED <<remote, cache, fetchIdx, loaded_data, data_bundle, errors, selected_major,
                   selected_minor, courses, fulfillment, final_df, styles, raised, invoked,
                   fetchFailed>>

\* the sidebar: the two selectboxes and the button
Sidebar ==
    /\ pc = "loaded"
    /\ Has(data_bundle)
    /\ selected_major' \in SelectboxChoices(Keys(Val(data_bundle).major_data))
    /\ selected_minor' \in SelectboxChoices(Keys(Val(data_bundle).minor_data))
    /\ \E pressed \in BOOLEAN : pc' = IF pressed THEN "analyze" ELSE "end"
    /\ UNCHANGED <<remote, cache, fetchIdx, loaded_data, data_bundle, errors, courses,
                   fulfillment, final_df, styles, message, raised, invoked, fetchFailed>>

\* GetCourses with the "if not courses" check lost
GetCoursesNoCheck ==
    /\ pc = "analyze"
    /\ courses' = get_minor_courses(selected_minor, Val(data_bundle).minor_data)
    /\ invoked' = invoked \cup {"get_minor_courses"}
    /\ pc' = "map"
    /\ UNCHANGED <<remote, cache, fetchIdx, loaded_data, data_bundle, errors, selected_major,
                   selected_minor, fulfillment, final_df, styles, message, raised, fetchFailed>>

\* 1. Get Courses, and the warning when there are none
GetCourses ==
    /\ pc = "analyze"
    /\ courses' = get_minor_courses(selected_minor, Val(data_bundle).minor_data)
    /\ invoked' = invoked \cup {"get_minor_courses"}
    /\ IF courses' = <<>>
       THEN message' = "warning" /\ pc' = "end"
       ELSE message' = message /\ pc' = "map"
    /\ UNCHANGED <<remote, cache, fetchIdx, loaded_data, data_bundle, errors, selected_major,
                   selected_minor, fulfillment, final_df, styles, raised, fetchFailed>>

\* 2. Map Requirements
MapRequirements ==
    /\ pc = "map"
    /\ invoked' = invoked \cup {"map_gened_requirements"}
    /\ \E r \in {map_gened_requirements(courses, selected_major, Val(data_bundle))} :
           IF r.err # "none"
           THEN raised' = r.err /\ pc' = "end" /\ fulfillment' = fulfillment
           ELSE raised' = raised /\ pc' = "process" /\ fulfillment' = r.val
    /\ UNCHANGED <<remote, cache, fetchIdx, loaded_data, data_bundle, errors, selected_major,
                   selected_minor, courses, final_df, styles, message, fetchFailed>>

\* 3. Process into DataFrame
Process ==
    /\ pc = "process"
    /\ invoked' = invoked \cup {"process_curriculum_json"}
    /\ \E r \in {process_curriculum_json(Val(selected_minor),
                        Get(Val(data_bundle).minor_data, Val(selected_minor)),
                        gened_areas, fulfillment)} :
           IF r.err # "none"
           THEN raised' = r.err /\ pc' = "end" /\ final_df' = final_df
           ELSE raised' = raised /\ pc' = "render" /\ final_df' = Some(r.rows)
    /\ UNCHANGED <<remote, cache, fetchIdx, loaded_data, data_bundle, errors, selected_major,
                   selected_minor, courses, fulfillment, styles, message, fetchFailed>>

\* Render with the "if final_df.empty" branch lost
RenderNoEmptyCheck ==
    /\ pc = "render"
    /\ message' = "styled"
    /\ styles' = apply_section_borders(Val(final_df))
    /\ pc' = "end"
    /\ UNCHANGED <<remote, cache, fetchIdx, loaded_data, data_bundle, errors, selected_major,
                   selected_minor, courses, fulfillment, final_df, raised, invoked,
                   fetchFailed>>

\* if final_df.empty: st.info(...) else: 4. Apply Styles, 5. Render
Render ==
    /\ pc = "render"
    /\ IF Val(final_df) = <<>>
       THEN message' = "info" /\ styles' = styles
       ELSE message' = "styled" /\ styles' = apply_section_borders(Val(final_df))
    /\ pc' = "end"
    /\ UNCHANGED <<remote, cache, fetchIdx, loaded_data, data_bundle, errors, selected_major,
                   selected_minor, courses, fulfillment, final_df, raised, invoked,
                   fetchFailed>>

\* the next interaction reruns the script from the top
Rerun ==
    /\ pc = "end"
    /\ pc' = "start"
    /\ fetchIdx' = 0
    /\ loaded_data' = <<>>
    /\ data_bundle' = Absent
    /\ errors' = 0
    /\ selected_major' = Absent
    /\ selected_minor' = Absent
    /\ courses' = <<>>
    /\ fulfillment' = <<>>
    /\ final_df' = Absent
    /\ styles' = <<>>
    /\ message' = ""
    /\ raised' = "none"
    /\ invoked' = {}
    /\ fetchFailed' = 0
    /\ UNCHANGED <<remote, cache>>

Next ==
    \/ CallLoadData
    \/ FetchOk
    \/ FetchFail
    \/ Stop
    \/ Sidebar
    \/ GetCourses
    \/ MapRequirements
    \/ Process
    \/ Render
    \/ Rerun

----------------------------------------------------------------------------
\* The documents the runs are checked on

\* the longest section list of a minor
MaxEntries == 2

\* all sequences over S of length at most n
SeqsUpTo(S, n) == UNION {[1..k -> S] : k \in 0..n}

\* an optional section: the key is absent, or holds one of lists
OptionalSection(lists) == {Absent} \cup {Some(l) : l \in lists}

\* a minor record {"Core": ..., "Electives": ..., "Other": ...} with the given optional sections
Minor(core, electives, other) ==
    (IF Has(core) THEN <<[key |-> "Core", val |-> Val(core)]>> ELSE <<>>)
    \o (IF Has(electives) THEN <<[key |-> "Electives", val |-> Val(electives)]>> ELSE <<>>)
    \o (IF Has(other) THEN <<[key |-> "Other", val |-> Val(other)]>> ELSE <<>>)

\* the gen-ed document {"gened": {"Required Core": req, "Flexible Core": flex}}
Gened(req, flex) ==
    <<[key |-> "gened",
       val |-> <<[key |-> "Required Core", val |-> req], [key |-> "Flexible Core", val |-> flex]>>]>>

\* the major document {"MAJ": {"Core": core, "Electives": electives}}
Major(core, electives) == <<[key |-> "MAJ", val |-> [Core |-> core, Electives |-> electives]]>>

\* the liberal-arts document {"Lib Art": lib, "Adv Lib Art": adv}
Lib(lib, adv) == <<[key |-> "Lib Art", val |-> lib], [key |-> "Adv Lib Art", val |-> adv]>>

\* the JSON document {}
EmptyDoc == <<>>

Bundle(minor_data, gened_data, major_data, lib_data, ID_data) ==
    [minor_data |-> minor_data, gened_data |-> gened_data, major_data |-> major_data,
     lib_data |-> lib_data, ID_data |-> ID_data]

\* catalogs that list no course
BlankGened == Gened(<<>>, <<>>)

BlankMajor == Major(<<>>, <<>>)

BlankLib == Lib(<<>>, <<>>)

\* catalogs that list X1 and Y2 in several places
FullGened ==
    Gened(<<GenedRec("X1", Some(AreaList(<<"EC">>)))>>,
          <<GenedRec("Y2", Some(AreaList(<<"WCGI", "IS">>)))>>)

FullMajor == Major(<<CourseObj("X1")>>, <<CourseObj("Y2")>>)

FullLib == Lib(<<CourseObj("X1")>>, <<CourseObj("Y2")>>)

\* the entries the minors of the pipeline runs are built from
CoreEntries ==
    {Titled("X1", "T1"), Plain("12ID"), Group("G", <<Plain("Y2")>>),
     Options("Choose 1", <<Plain("Y2")>>)}

ElectiveEntries == {Plain("Y2"), Group("G", <<Plain("X1"), Plain("Z3")>>)}

OtherSections == {Absent, Some(<<Plain("Z3")>>), Some(<<>>)}

\* one minor M of every shape, over two sets of catalogs; and no minor at all
TreeBundles ==
    {Bundle(<<[key |-> "M", val |-> Minor(c, e, o)]>>, cat.gened, cat.major, cat.lib, cat.ID) :
        c \in OptionalSection(SeqsUpTo(CoreEntries, MaxEntries)),
        e \in OptionalSection(SeqsUpTo(ElectiveEntries, MaxEntries)),
        o \in OtherSections,
        cat \in {[gened |-> BlankGened, major |-> BlankMajor, lib |-> BlankLib, ID |-> {}],
                 [gened |-> FullGened, major |-> FullMajor, lib |-> FullLib, ID |-> {"Y2"}]}}

\* the shapes of each catalog, for the course X1
GenedDocs ==
    {EmptyDoc, BlankGened,
     Gened(<<GenedRec("X1", Some(AreaList(<<"EC">>)))>>, <<>>),
     Gened(<<GenedRec("X1", Some(AreaList(<<"EC">>)))>>, <<GenedRec("X1", Some(AreaList(<<"IS">>)))>>),
     Gened(<<GenedRec("X1", Some(AreaStr("MQR")))>>, <<>>),
     Gened(<<GenedRec("X1", Some(AreaNull))>>, <<GenedRec("Y2", Absent)>>),
     Gened(<<>>, <<GenedRec("X1", Some(AreaList(<<"ID">>)))>>)}

MajorDocs ==
    {EmptyDoc, BlankMajor,
     Major(<<CourseObj("X1")>>, <<>>),
     Major(<<CourseStr("X1")>>, <<>>),
     Major(<<>>, <<CourseObj("X1")>>),
     Major(<<CourseObj("X1")>>, <<>>) \o <<[key |-> "MAJ2", val |-> [Core |-> <<>>, Electives |-> <<>>]]>>}

LibDocs ==
    {EmptyDoc, BlankLib, Lib(<<CourseObj("X1")>>, <<>>), Lib(<<>>, <<CourseObj("X1")>>)}

IDDocs == {{}, {"X1"}}

CatalogMinors ==
    {Minor(Some(<<Titled("X1", "T1")>>), Absent, Absent),
     Minor(Some(<<Plain("Y2")>>), Some(<<Plain("X1"), Plain("12ID")>>), Absent),
     Minor(Some(<<>>), Absent, Some(<<Plain("X1")>>))}

\* three minors, over every shape of every catalog
CatalogBundles ==
    {Bundle(<<[key |-> "M", val |-> m]>>, g, mj, l, d) :
        m \in CatalogMinors, g \in GenedDocs, mj \in MajorDocs, l \in LibDocs, d \in IDDocs}

Init ==
    /\ remote \in TreeBundles \cup CatalogBundles
                  \cup {Bundle(EmptyDoc, BlankGened, BlankMajor, BlankLib, {})}
    /\ cache = [state |-> "empty", value |-> Absent, errors |-> 0]
    /\ pc = "start"
    /\ RunLocals

Spec == Init /\ [][Next]_vars

----------------------------------------------------------------------------
\* map_gened_requirements on every identifier

\* the longest course identifier
MaxIdLen == 4

\* the characters identifiers are made of
IdChars == {"1", "2", "I", "D", "\n"}

RECURSIVE StringsOfLen(_)
StringsOfLen(n) ==
    IF n = 0 THEN {""} ELSE {str \o ch : str \in StringsOfLen(n - 1), ch \in IdChars}

\* every identifier of at most MaxIdLen characters
Identifiers == UNION {StringsOfLen(n) : n \in 0..MaxIdLen}

\* load_data's loaded_data once it has returned bundle
LoadedOf(bundle) == [i \in 1..Len(files) |-> [key |-> files[i], val |-> bundle[files[i]]]]

\* a minor whose only course is id, over catalogs that list id or not
ResolverBundlesFor(id) ==
    {Bundle(<<[key |-> "M", val |-> Minor(Some(<<Plain(id)>>), Absent, Absent)]>>,
            g, Major(IF inMajor THEN <<CourseObj(id)>> ELSE <<>>, <<>>),
            Lib(<<>>, IF inAdv THEN <<CourseObj(id)>> ELSE <<>>),
            IF inID THEN {id} ELSE {}) :
        g \in {BlankGened,
               Gened(<<GenedRec(id, Some(AreaList(<<"EC">>)))>>, <<>>),
               Gened(<<GenedRec(id, Some(AreaList(<<"ID">>)))>>, <<>>),
               Gened(<<>>, <<GenedRec(id, Some(AreaStr("ID")))>>)},
        inMajor \in BOOLEAN, inAdv \in BOOLEAN, inID \in BOOLEAN}

\* a run that has loaded bundle, selected MAJ and M, and pressed the button
Loaded(bundle) ==
    /\ remote = bundle
    /\ cache = [state |-> "set", value |-> Some(bundle), errors |-> 0]
    /\ fetchIdx = Len(files)
    /\ loaded_data = LoadedOf(bundle)
    /\ data_bundle = Some(bundle)
    /\ errors = 0
    /\ selected_major = Some("MAJ")
    /\ selected_minor = Some("M")
    /\ fulfillment = <<>>
    /\ final_df = Absent
    /\ styles = <<>>
    /\ message = ""
    /\ raised = "none"
    /\ fetchFailed = 0

\* the run is about to call map_gened_requirements
InitResolver ==
    /\ \E id \in Identifiers : \E bundle \in ResolverBundlesFor(id) :
           /\ Loaded(bundle)
           /\ courses = get_minor_courses(Some("M"), bundle.minor_data)
    /\ invoked = {"get_minor_courses"}
    /\ pc = "map"

NextResolver == MapRequirements

SpecResolver == InitResolver /\ [][NextResolver]_vars

----------------------------------------------------------------------------
\* The Analyze path on minors of many shapes

\* the longest Core list of these minors
MaxTableEntries == 3

\* direct entries, and groups that share a name, differ in name, or are empty
TableCoreEntries ==
    {Plain("A1"), Titled("B2", "T"), Group("G", <<Plain("C3")>>),
     Group("G", <<Plain("D4"), Plain("E5")>>), Group("H", <<Plain("C3")>>), Group("E", <<>>)}

TableElectives ==
    {Absent, Some(<<>>), Some(<<Plain("F6")>>),
     Some(<<Group("G", <<Plain("A1")>>), Plain("F6")>>),
     Some(<<Plain("F6"), Group("K", <<Plain("A1")>>)>>),
     Some(<<Group("K", <<Plain("A1")>>), Group("K", <<Plain("F6")>>)>>)}

\* catalogs that list none of the courses, or some of them
TableCatalogs ==
    {[gened |-> BlankGened, major |-> BlankMajor, lib |-> BlankLib, ID |-> {}],
     [gened |-> Gened(<<GenedRec("A1", Some(AreaList(<<"EC">>)))>>,
                      <<GenedRec("C3", Some(AreaList(<<"IS", "CE">>)))>>),
      major |-> Major(<<CourseObj("C3")>>, <<CourseObj("F6")>>),
      lib |-> Lib(<<CourseObj("D4")>>, <<>>),
      ID |-> {"E5"}]}

\* the values a Credit or credit key may hold in a JSON document
CreditValues ==
    {DictV(TRUE, TRUE, 3, 3), DictV(TRUE, TRUE, 1, 4), DictV(TRUE, TRUE, 0, 0),
     DictV(TRUE, FALSE, 3, 0), DictV(FALSE, TRUE, 0, 3), DictV(FALSE, FALSE, 0, 0),
     NumV(4), NumV(0), StrV("4"), StrV(""), NullV}

\* a course A1 with every combination of credit keys
CreditEntries ==
    {Entry(Some("A1"), Absent, C, c, o, Absent, <<>>) :
        C \in {Absent} \cup {Some(v) : v \in CreditValues},
        c \in {Absent, Some(DictV(TRUE, TRUE, 2, 2)), Some(NumV(0)), Some(StrV("two"))},
        o \in {<<>>, <<DictV(TRUE, TRUE, 1, 4)>>, <<NumV(5), DictV(TRUE, TRUE, 4, 4)>>,
               <<StrV("x")>>}}

\* the button has been pressed on a minor M
InitTable ==
    /\ \/ \E core \in SeqsUpTo(TableCoreEntries, MaxTableEntries) :
          \E elec \in TableElectives : \E cat \in TableCatalogs :
              Loaded(Bundle(<<[key |-> "M", val |-> Minor(Some(core), elec, Absent)]>>,
                            cat.gened, cat.major, cat.lib, cat.ID))
       \/ \E e \in CreditEntries : \E grouped \in BOOLEAN :
              Loaded(Bundle(<<[key |-> "M",
                               val |-> Minor(Some(IF grouped THEN <<Group("G", <<e>>)>> ELSE <<e>>),
                                             Absent, Absent)]>>,
                            BlankGened, BlankMajor, BlankLib, {}))
    /\ courses = <<>>
    /\ invoked = {}
    /\ pc = "analyze"

NextTable ==
    \/ GetCourses
    \/ MapRequirements
    \/ Process
    \/ Render

SpecTable == InitTable /\ [][NextTable]_vars

----------------------------------------------------------------------------
\* Properties of the script runs

\* C8: in a run where the fetch of one of the five documents fails, load_data
\* shows exactly one error, requests no file after the failing one and returns
\* None (no partial bundle, and None is what the cache keeps); main then stops:
\* none of get_minor_courses, map_gened_requirements and
\* process_curriculum_json is called and no table exists.
C8_FetchFailureHalts ==
    fetchFailed # 0 =>
        /\ errors = 1
        /\ fetchIdx = fetchFailed
        /\ data_bundle = Absent
        /\ cache.value = Absent
        /\ pc \in {"loaded", "end"}
        /\ pc = "end" => message = "stopped"
        /\ invoked = {}
        /\ courses = <<>> /\ fulfillment = <<>> /\ final_df = Absent /\ styles = <<>>

\* the third fetch failed after two documents were loaded, and main has stopped
C8_Witness ==
    /\ fetchFailed = 3
    /\ Len(loaded_data) = 2
    /\ pc = "end"
    /\ message = "stopped"

\* the run pressed the button and has ended
AnalyzeEnded == pc = "end" /\ "get_minor_courses" \in invoked

\* the minor names the function-level checks call get_minor_courses with
ProbeNames == {Absent, Some("M"), Some("N"), Some("Core"), Some("")}

\* C6: get_minor_courses returns [] for every minor name that is not a key of
\* the minor catalog; and whenever the extracted sequence is empty, the Analyze
\* path shows the no-data warning and ends without calling
\* map_gened_requirements or process_curriculum_json.
C6_MissingMinorIsEmptyAndWarned ==
    /\ \A name \in ProbeNames :
           (~Has(name) \/ ~HasKey(remote.minor_data, Val(name)))
               => get_minor_courses(name, remote.minor_data) = <<>>
    /\ ("get_minor_courses" \in invoked /\ courses = <<>>) =>
           /\ pc = "end"
           /\ message = "warning"
           /\ raised = "none"
           /\ invoked = {"get_minor_courses"}
           /\ fulfillment = <<>> /\ final_df = Absent /\ styles = <<>>

\* the minor catalog is empty, nothing is selected, and the run ended with the warning
C6_Witness ==
    /\ AnalyzeEnded
    /\ remote.minor_data = EmptyDoc
    /\ ~Has(selected_minor)
    /\ courses = <<>>
    /\ message = "warning"

\* the selected minor has neither a Core nor an Electives entry
EmptyMinorSelected ==
    /\ Has(selected_minor)
    /\ HasKey(remote.minor_data, Val(selected_minor))
    /\ SectionOf(Get(remote.minor_data, Val(selected_minor)), "Core") = <<>>
    /\ SectionOf(Get(remote.minor_data, Val(selected_minor)), "Electives") = <<>>

\* C7 as stated: for a selected minor whose Core and Electives are both absent
\* or empty, an Analyze run reaches process_curriculum_json, gets an empty
\* table and ends with the "could not be processed" notice.
C7_AsStated ==
    (AnalyzeEnded /\ EmptyMinorSelected) =>
        /\ "process_curriculum_json" \in invoked
        /\ final_df = Some(<<>>)
        /\ message = "info"

\* C7 amended: for such a minor process_curriculum_json returns an empty table,
\* whatever the fulfillment list; an Analyze run ends with the no-data warning,
\* without calling it, when no section of the minor yields a course; when
\* another section yields courses the run ends in map_gened_requirements'
\* exception or calls process_curriculum_json, gets the empty table, shows the
\* "could not be processed" notice and styles no grid.
C7_EmptyMinor ==
    EmptyMinorSelected =>
        /\ \A fl \in {<<>>, fulfillment, <<[Course |-> "X1", Areas |-> <<"EC">>]>>} :
               process_curriculum_json(Val(selected_minor),
                   Get(remote.minor_data, Val(selected_minor)), gened_areas, fl)
                   = [err |-> "none", rows |-> <<>>]
        /\ AnalyzeEnded =>
               \/ /\ courses = <<>>
                  /\ message = "warning"
                  /\ invoked = {"get_minor_courses"}
                  /\ final_df = Absent
               \/ /\ courses # <<>>
                  /\ raised # "none"
                  /\ message = ""
                  /\ invoked = {"get_minor_courses", "map_gened_requirements"}
                  /\ final_df = Absent
               \/ /\ courses # <<>>
                  /\ raised = "none"
                  /\ message = "info"
                  /\ "process_curriculum_json" \in invoked
                  /\ final_df = Some(<<>>)
                  /\ styles = <<>>

\* a minor with only an "Other" section reached the notice
C7_Witness ==
    /\ AnalyzeEnded
    /\ EmptyMinorSelected
    /\ courses # <<>>
    /\ final_df = Some(<<>>)
    /\ message = "info"

\* the minor catalog of the end-to-end example
C1_Minor == <<[key |-> "M", val |-> Minor(Some(<<Titled("X1", "T1")>>), Absent, Absent)]>>

\* the row of the end-to-end example
C1_Row ==
    [Sub_Section |-> "A. Mandatory Core Courses", Course |-> "X1", Name |-> "T1", Credit |-> "3",
     flags |-> [a \in Range(gened_areas) |-> IF a = "Major_Core" THEN "X" ELSE ""]]

Mapped == "map_gened_requirements" \in invoked /\ fulfillment # <<>>

\* course is in no catalog: not in the merged gen-ed lookup, not in the selected
\* major's Core or Electives, not in Lib Art or Adv Lib Art, not a key of the
\* interdisciplinary catalog
AbsentEverywhere(course) ==
    /\ \A i \in 1..Len(GenedRecords(remote.gened_data)) :
           GenedRecords(remote.gened_data)[i].Course # course
    /\ course \notin CourseSet(Get(remote.major_data, Val(selected_major)).Core)
    /\ course \notin CourseSet(Get(remote.major_data, Val(selected_major)).Electives)
    /\ course \notin CourseSet(Get(remote.lib_data, "Lib Art"))
    /\ course \notin CourseSet(Get(remote.lib_data, "Adv Lib Art"))
    /\ course \notin remote.ID_data

\* every area column of the row is blank
BlankRow(row) == \A a \in Range(gened_areas) : row.flags[a] = ""

\* C2 as stated: a course absent from every catalog gets an empty Fulfilled
\* Areas list and an all-blank row.
C2_AsStated ==
    Mapped =>
        /\ \A i \in 1..Len(fulfillment) :
               AbsentEverywhere(fulfillment[i].Course) => fulfillment[i].Areas = <<>>
        /\ Has(final_df) =>
               \A i \in 1..Len(Val(final_df)) :
                   AbsentEverywhere(Val(final_df)[i].Course) => BlankRow(Val(final_df)[i])

\* C2 amended: a course absent from every catalog whose identifier does not
\* match the pattern \d+ID$ gets an empty Fulfilled Areas list and an all-blank
\* row; one that matches the pattern gets exactly ["ID"] and only its ID column
\* is flagged.
C2_AbsentCourseIsBlank ==
    Mapped =>
        /\ \A i \in 1..Len(fulfillment) :
               AbsentEverywhere(fulfillment[i].Course) =>
                   fulfillment[i].Areas
                       = IF MatchesIDPattern(fulfillment[i].Course) THEN <<"ID">> ELSE <<>>
        /\ Has(final_df) =>
               \A i \in 1..Len(Val(final_df)) :
                   AbsentEverywhere(Val(final_df)[i].Course) =>
                       \A a \in Range(gened_areas) :
                           Val(final_df)[i].flags[a] = "X"
                               <=> (a = "ID" /\ MatchesIDPattern(Val(final_df)[i].Course))

\* a course that is in no catalog and does not match the pattern has a row
C2_Witness ==
    /\ Mapped
    /\ Has(final_df)
    /\ \E i \in 1..Len(Val(final_df)) :
           /\ AbsentEverywhere(Val(final_df)[i].Course)
           /\ ~MatchesIDPattern(Val(final_df)[i].Course)
           /\ BlankRow(Val(final_df)[i])
    /\ \E i \in 1..Len(Val(final_df)) : ~BlankRow(Val(final_df)[i])

\* C10: in an Analyze run every course of a table row is in the sequence
\* get_minor_courses returned, so it has an item in the fulfillment list (the
\* lookup does not fall back to []), and each area column of the row is 'X'
\* exactly when the area is in the Fulfilled Areas map_gened_requirements
\* computes for that course.
C10_RowsAreResolved ==
    Has(final_df) =>
        \A i \in 1..Len(Val(final_df)) :
            /\ Val(final_df)[i].Course \in Range(courses)
            /\ \E j \in 1..Len(fulfillment) : fulfillment[j].Course = Val(final_df)[i].Course
            /\ \A a \in Range(gened_areas) :
                   Val(final_df)[i].flags[a] = "X"
                       <=> a \in Range(FulfilledAreas(Val(final_df)[i].Course, selected_major,
                                                      Val(data_bundle)))

\* a table with a flagged row that comes from a conditional group
C10_Witness ==
    /\ Has(final_df)
    /\ \E i \in 1..Len(Val(final_df)) :
           /\ Val(final_df)[i].Sub_Section = "B. Conditional Core: G"
           /\ Val(final_df)[i].flags["Adv Lib Art"] = "X"

\* str ends in one or more digits immediately followed by "ID"
EndsInDigitsID(str) ==
    /\ Len(str) >= 3
    /\ SubSeq(str, Len(str) - 1, Len(str)) = "ID"
    /\ IsDigit(SubSeq(str, Len(str) - 2, Len(str) - 2))

\* str without its last character
DropLast(str) == SubSeq(str, 1, Len(str) - 1)

\* the Area(s) value of the last gen-ed record of course is, or holds, "ID"
GenedListsID(course) ==
    \E i \in 1..Len(GenedRecords(remote.gened_data)) :
        /\ GenedRecords(remote.gened_data)[i].Course = course
        /\ \A j \in (i + 1)..Len(GenedRecords(remote.gened_data)) :
               GenedRecords(remote.gened_data)[j].Course # course
        /\ Has(GenedRecords(remote.gened_data)[i].Areas)
        /\ \/ Val(GenedRecords(remote.gened_data)[i].Areas).s = "ID"
           \/ "ID" \in Range(Val(GenedRecords(remote.gened_data)[i].Areas).v)

\* C3 as stated: the Fulfilled Areas of a course contain "ID" if and only if
\* the identifier is a key of the interdisciplinary catalog or ends in one or
\* more digits immediately followed by "ID".
C3_AsStated ==
    Mapped =>
        \A i \in 1..Len(fulfillment) :
            "ID" \in Range(fulfillment[i].Areas)
                <=> \/ fulfillment[i].Course \in remote.ID_data
                    \/ EndsInDigitsID(fulfillment[i].Course)

\* C3 amended: the Fulfilled Areas of a course contain "ID" if and only if the
\* identifier is a key of the interdisciplinary catalog, or ends in one or more
\* digits immediately followed by "ID", or ends so once one final newline is
\* dropped, or the gen-ed catalog itself lists "ID" for the course; an
\* identifier such as "12ID" that the catalog lacks resolves "ID", whatever the
\* gen-ed, major and liberal-arts checks found, and "ID" is then the last area.
C3_IDRule ==
    Mapped =>
        \A i \in 1..Len(fulfillment) :
            /\ "ID" \in Range(fulfillment[i].Areas)
                   <=> \/ fulfillment[i].Course \in remote.ID_data
                       \/ EndsInDigitsID(fulfillment[i].Course)
                       \/ /\ Len(fulfillment[i].Course) >= 1
                          /\ SubSeq(fulfillment[i].Course, Len(fulfillment[i].Course),
                                    Len(fulfillment[i].Course)) = "\n"
                          /\ EndsInDigitsID(DropLast(fulfillment[i].Course))
                       \/ GenedListsID(fulfillment[i].Course)
            /\ (fulfillment[i].Course \in remote.ID_data \/ EndsInDigitsID(fulfillment[i].Course))
                   => fulfillment[i].Areas[Len(fulfillment[i].Areas)] = "ID"

\* "12ID" is not a key of the interdisciplinary catalog, the gen-ed, major and
\* liberal-arts checks all matched, and "ID" was added after them
C3_Witness ==
    /\ remote.ID_data = {}
    /\ fulfillment = <<[Course |-> "12ID",
                        Areas |-> <<"EC", "Major_Core", "Lib Art", "Adv Lib Art", "ID">>]>>

----------------------------------------------------------------------------
\* Properties of the table

\* the selected minor's list under a section key, [] when the key is absent
MinorSection(name) ==
    SectionOf(Get(Val(data_bundle).minor_data, Val(selected_minor)), name)

\* the course entries of a section in document order: a direct entry, or the
\* entries of a group's list
TraversalEntries(section) ==
    Concat([i \in 1..Len(section) |->
               IF Has(section[i].Course) THEN <<section[i]>>
               ELSE IF Has(section[i].group) THEN Get(section[i].lists, "courses")
               ELSE <<>>])

\* the course and sub-section label of each of these entries
TraversalLabels(section, direct_label, group_prefix) ==
    Concat([i \in 1..Len(section) |->
               IF Has(section[i].Course)
               THEN <<[Course |-> Val(section[i].Course), Sub_Section |-> direct_label]>>
               ELSE IF Has(section[i].group)
               THEN [j \in 1..Len(Get(section[i].lists, "courses")) |->
                        [Course |-> Val(Get(section[i].lists, "courses")[j].Course),
                         Sub_Section |-> group_prefix \o Val(section[i].group)]]
               ELSE <<>>])

StartsWith(str, prefix) ==
    Len(str) >= Len(prefix) /\ SubSeq(str, 1, Len(prefix)) = prefix

IsCoreRow(row) ==
    \/ row.Sub_Section = "A. Mandatory Core Courses"
    \/ StartsWith(row.Sub_Section, "B. Conditional Core: ")

IsGroupRow(row) == StartsWith(row.Sub_Section, "B. Conditional ")

\* C4 as stated: once process_curriculum_json has been called, it has raised
\* nothing and has returned a table with one row per course entry, and the row
\* of every entry without a {Min,Max} pair (not under Credit, not under credit,
\* not under another key containing "credit") has the Credit string "3".
C4_AsStated ==
    "process_curriculum_json" \in invoked =>
        /\ raised = "none"
        /\ Has(final_df)
        /\ LET entries == TraversalEntries(MinorSection("Core"))
                              \o TraversalEntries(MinorSection("Electives"))
               NoPair(e) ==
                   /\ ~(Has(e.Credit) /\ IsMinMaxPair(Val(e.Credit)))
                   /\ ~(Has(e.credit) /\ IsMinMaxPair(Val(e.credit)))
                   /\ \A k \in 1..Len(e.others) : ~IsMinMaxPair(e.others[k])
           IN  /\ Len(Val(final_df)) = Len(entries)
               /\ \A i \in 1..Len(entries) :
                      NoPair(entries[i]) => Val(final_df)[i].Credit = "3"

\* C5 as stated: in the table, no Electives row precedes a Core row, and within
\* Core and within Electives no conditional-group row precedes a direct-entry row.
C5_AsStated ==
    Has(final_df) =>
        \A i \in 1..Len(Val(final_df)) : \A j \in 1..Len(Val(final_df)) :
            i < j =>
                /\ IsCoreRow(Val(final_df)[j]) => IsCoreRow(Val(final_df)[i])
                /\ (IsCoreRow(Val(final_df)[i]) <=> IsCoreRow(Val(final_df)[j]))
                       => (IsGroupRow(Val(final_df)[i]) => IsGroupRow(Val(final_df)[j]))

\* C5, amended: the rows of the table follow the document: the rows of Core in
\* the order of the Core list, then the rows of Electives in the order of the
\* Electives list, a direct entry giving one row labelled as a direct entry and
\* a group giving one row per course of its list labelled with the group's
\* name, whatever the fulfillment list holds; direct entries and groups are not
\* sorted apart.
C5_RowsFollowDocument ==
    Has(final_df) =>
        [i \in 1..Len(Val(final_df)) |->
            [Course |-> Val(final_df)[i].Course, Sub_Section |-> Val(final_df)[i].Sub_Section]]
        = TraversalLabels(MinorSection("Core"), "A. Mandatory Core Courses",
                          "B. Conditional Core: ")
          \o TraversalLabels(MinorSection("Electives"), "A. General Electives List",
                             "B. Conditional Elective: ")

\* C5 witness: a table built from Core = [group G of C3, direct A1] and
\* Electives = [direct F6] with courses the catalogs list: the group's row
\* comes first.
C5_Witness ==
    /\ Has(final_df)
    /\ remote.ID_data = {"E5"}
    /\ MinorSection("Core") = <<Group("G", <<Plain("C3")>>), Plain("A1")>>
    /\ MinorSection("Electives") = <<Plain("F6")>>
    /\ [i \in 1..Len(Val(final_df)) |-> Val(final_df)[i].Course] = <<"C3", "A1", "F6">>

\* the groups of a section that contribute rows
IsFilledGroup(item) ==
    /\ ~Has(item.Course)
    /\ Has(item.group)
    /\ Get(item.lists, "courses") # <<>>

\* the number of rows the first k items of a section contribute
RowsThrough(section, k) == Len(TraversalEntries(SubSeq(section, 1, k)))

Styled == pc = "end" /\ message = "styled"

\* C9 as stated: for two structurally distinct groups of the same section, the
\* last row of the earlier one carries a boundary marker, equal names or not.
C9_AsStated ==
    Styled =>
        /\ \A k \in 1..Len(MinorSection("Core")) : \A l \in 1..Len(MinorSection("Core")) :
               (/\ k < l
                /\ IsFilledGroup(MinorSection("Core")[k])
                /\ IsFilledGroup(MinorSection("Core")[l])
                /\ MinorSection("Core")[k] # MinorSection("Core")[l])
               => RowsThrough(MinorSection("Core"), k) \in Range(styles)
        /\ \A k \in 1..Len(MinorSection("Electives")) :
           \A l \in 1..Len(MinorSection("Electives")) :
               (/\ k < l
                /\ IsFilledGroup(MinorSection("Electives")[k])
                /\ IsFilledGroup(MinorSection("Electives")[l])
                /\ MinorSection("Electives")[k] # MinorSection("Electives")[l])
               => (RowsThrough(MinorSection("Core"), Len(MinorSection("Core")))
                   + RowsThrough(MinorSection("Electives"), k)) \in Range(styles)

\* C9, amended: a sub-section is a run of consecutive rows with the same label,
\* and the label of a group's rows is made of the group's name only.  A marker
\* is recorded at a row exactly when a next row exists and has another label.
\* So for two groups that follow one another in Core or in Electives, the last
\* row of the earlier one carries a marker exactly when their names differ:
\* groups of the same name are merged into one sub-section.
C9_MarkersFollowLabels ==
    Styled =>
        /\ \A i \in 1..Len(Val(final_df)) :
               i \in Range(styles)
               <=> (/\ i < Len(Val(final_df))
                    /\ Val(final_df)[i + 1].Sub_Section # Val(final_df)[i].Sub_Section)
        /\ \A k \in 1..(Len(MinorSection("Core")) - 1) :
               (IsFilledGroup(MinorSection("Core")[k])
                /\ IsFilledGroup(MinorSection("Core")[k + 1]))
               => (RowsThrough(MinorSection("Core"), k) \in Range(styles)
                   <=> Val(MinorSection("Core")[k].group)
                       # Val(MinorSection("Core")[k + 1].group))
        /\ \A k \in 1..(Len(MinorSection("Electives")) - 1) :
               (IsFilledGroup(MinorSection("Electives")[k])
                /\ IsFilledGroup(MinorSection("Electives")[k + 1]))
               => ((RowsThrough(MinorSection("Core"), Len(MinorSection("Core")))
                    + RowsThrough(MinorSection("Electives"), k)) \in Range(styles)
                   <=> Val(MinorSection("Electives")[k].group)
                       # Val(MinorSection("Electives")[k + 1].group))

\* C9 witness: a styled table for Core = [group G of C3, group G of D4 and E5,
\* group H of C3] and no Electives: the only marker is at row 3, between the
\* second G and H.
C9_Witness ==
    /\ Styled
    /\ MinorSection("Core") = <<Group("G", <<Plain("C3")>>),
                                Group("G", <<Plain("D4"), Plain("E5")>>),
                                Group("H", <<Plain("C3")>>)>>
    /\ MinorSection("Electives") = <<>>
    /\ Len(Val(final_df)) = 4
    /\ styles = <<3>>

====
